---- MODULE Spec2Model ----
(***************************************************************************)
(* swec distributor: the state actor (src/bin/distributor/state_actor.rs). *)
(* One worker task owns the map of services and serves the requests of an  *)
(* unbounded mpsc queue one at a time; StateActorHandle clones enqueue the *)
(* requests, wait on a oneshot reply, and republish accepted writes on a   *)
(* tokio broadcast channel.                                                *)
(***************************************************************************)
EXTENDS Integers, Sequences, FiniteSets, TLC

\* ------------------------------------------------------------------ bounds
\* Requests issued in one run of the wide configuration.
MaxReq == 3
\* Requests issued in one run of the history configuration.
MaxHistReq == 4
\* Largest per-service capacity handed to StateActorHandle::new.
MaxCap == 2
MaxSubReq == 3
MaxBufLen == 3
MaxLiveReq == 2
\* Capacity of the broadcast channel (broadcast::Sender::new(32)).
BusCap == 32
\* The per-service capacity main hands to StateActorHandle::new.
DefaultCap == 32

\* ------------------------------------------------------------- value sets
NoSpec == "nospec"
NoStatus == [time |-> -1, inner |-> "none"]
NoName == "noname"

\* ServiceAction, as handle_write matches it.
CreateService(spec) == [type |-> "CreateService", spec |-> spec, status |-> NoStatus]
DeleteService == [type |-> "DeleteService", spec |-> NoSpec, status |-> NoStatus]
AddStatus(s) == [type |-> "AddStatus", spec |-> NoSpec, status |-> s]

\* TimedStatus { time, inner }.
TimedStatus(t, i) == [time |-> t, inner |-> i]

\* Result<T, E>: the value of an Ok is kept in a one-element sequence, so that
\* Ok(()) == Ok(<<>>), and an Option is a sequence of length at most one.
Ok(v) == [ok |-> TRUE, err |-> "none", val |-> v]
Err(e) == [ok |-> FALSE, err |-> e, val |-> <<>>]
None == <<>>
Some(x) == <<x>>

\* Callers (tasks holding a clone of the handle) and broadcast receivers.
Callers == {"c1", "c2"}
Subscribers == {"r1", "r2"}

\* The input universe of a run: what the callers may send, and what
\* StateActorHandle::new is given (the services loaded and the capacity).
\* Two concurrent callers on one name, with cancellation.
ConcEnv ==
  [names |-> {"a"}, specs |-> {"s1", "s2"},
   statuses |-> {TimedStatus(0, "up")}, times |-> {4},
   types |-> {"CreateService", "DeleteService", "AddStatus"},
   callers |-> {"c1", "c2"}, subscribers |-> {}, caps |-> {MaxCap},
   loaded |-> <<>>, maxreq |-> MaxReq]

\* One name and one caller, with every spec, status and query time.
HistEnv ==
  [names |-> {"a"}, specs |-> {"s1", "s2"},
   statuses |-> {TimedStatus(t, i) : t \in {0, 10}, i \in {"up", "down"}},
   times |-> {4, 5, 6},
   types |-> {"CreateService", "DeleteService", "AddStatus"},
   callers |-> {"c1"}, subscribers |-> {}, caps |-> 1..MaxCap,
   loaded |-> <<>>, maxreq |-> MaxHistReq]

\* Two names and one caller.
NamesEnv ==
  [names |-> {"a", "b"}, specs |-> {"s1", "s2"},
   statuses |-> {TimedStatus(0, "up")}, times |-> {4},
   types |-> {"CreateService", "DeleteService", "AddStatus"},
   callers |-> {"c1"}, subscribers |-> {}, caps |-> {MaxCap},
   loaded |-> <<>>, maxreq |-> MaxReq]

\* One loaded service, one caller that appends status st and one receiver,
\* for as many requests as overrun the broadcast channel.
BusEnv(st) ==
  [names |-> {"a"}, specs |-> {"s1"},
   statuses |-> {st}, times |-> {4},
   types |-> {"AddStatus"},
   callers |-> {"c1"}, subscribers |-> {"r1"}, caps |-> {DefaultCap},
   loaded |-> [n \in {"a"} |-> [spec |-> "s1", statuses |-> <<>>]],
   maxreq |-> BusCap + 2]

\* One name and one caller that writes and reads, and two receivers of the
\* broadcast channel that may subscribe at any time.
SubEnv ==
  [names |-> {"a"}, specs |-> {"s1"},
   statuses |-> {TimedStatus(0, "up")}, times |-> {4},
   types |-> {"CreateService", "DeleteService", "AddStatus"},
   callers |-> {"c1"}, subscribers |-> {"r1", "r2"}, caps |-> {MaxCap},
   loaded |-> <<>>, maxreq |-> MaxSubReq]

\* One name and one caller, and an actor task that may end at any time.
KillEnv ==
  [names |-> {"a"}, specs |-> {"s1"},
   statuses |-> {TimedStatus(0, "up")}, times |-> {4},
   types |-> {"CreateService", "DeleteService", "AddStatus"},
   callers |-> {"c1"}, subscribers |-> {}, caps |-> {MaxCap},
   loaded |-> <<>>, maxreq |-> MaxReq]

\* No engine request: the (time, status) pairs pushed to the status buffers
\* of swec-core, at two instants.
BufEnv ==
  [names |-> {}, specs |-> {}, statuses |-> {"up", "down"}, times |-> {1, 2},
   types |-> {}, callers |-> {}, subscribers |-> {}, caps |-> {MaxCap},
   loaded |-> <<>>, maxreq |-> 0]

\* One loaded service, two concurrent callers that append to it, and one
\* receiver of the broadcast channel.
OrderEnv ==
  [names |-> {"a"}, specs |-> {"s1"},
   statuses |-> {TimedStatus(0, "up")}, times |-> {4},
   types |-> {"AddStatus"},
   callers |-> {"c1", "c2"}, subscribers |-> {"r1"}, caps |-> {MaxCap},
   loaded |-> [n \in {"a"} |-> [spec |-> "s1", statuses |-> <<>>]],
   maxreq |-> MaxReq]

\* Two concurrent callers on one name, with cancellation, for the requests
\* the actor has to get through.
LiveEnv ==
  [names |-> {"a"}, specs |-> {"s1"},
   statuses |-> {TimedStatus(0, "up")}, times |-> {4},
   types |-> {"CreateService", "AddStatus"},
   callers |-> {"c1", "c2"}, subscribers |-> {}, caps |-> {MaxCap},
   loaded |-> <<>>, maxreq |-> MaxLiveReq]

\* ------------------------------------------------------------------ state
VARIABLES
  services,   \* StateActor.services: BTreeMap<String, Service>
  cap,        \* StateActor.cap
  queue,      \* the mpsc channel: messages sent and not yet received
  pc,         \* per caller: "idle", or "waiting" in exchange's recv.await
  cur,        \* per caller: the request its pending call sent (NoMsg: none)
  reply,      \* per caller: its oneshot channel, <<>> or <<result>>
  nreq,       \* requests issued so far (the id of the last one)
  bus,        \* the broadcast channel: every value it took, oldest first
  pub,        \* every value handed to broadcast_sender.send, oldest first
  subs,       \* the live broadcast receivers
  next,       \* per receiver: how many values of bus are behind it
  start,      \* per receiver: Len(bus) when it subscribed
  seen,       \* per receiver: the values recv has returned to it
  missed,     \* per receiver: the positions RecvError::Lagged skipped
  log,        \* the requests the worker has served, each with its result,
              \* the map before and after it, and whether the reply was sent
  ret,        \* per request id: <<>>, or <<result returned to the caller,
              \* requests issued when it returned>>
  env,        \* the input universe of this run
  alive,      \* the actor task spawned by StateActorHandle::new still runs
  vecbuf,     \* swec-core: a VecBuffer
  mapbuf,     \* swec-core: a BTreeMapBuffer
  xfer        \* swec-core: the VecBuffer last taken out of a buffer by as_vec

vars == <<services, cap, queue, pc, cur, reply, nreq, bus, pub, subs, next,
          start, seen, missed, log, ret, env,
          alive, vecbuf, mapbuf, xfer>>

storeVars == <<services, cap>>
callerVars == <<pc, cur, reply>>
busVars == <<bus, pub, subs, next, start, seen, missed>>
bufVars == <<vecbuf, mapbuf, xfer>>
auxVars == <<alive, bufVars>>

\* --------------------------------------------------------- swec::Service
\* Mutant of ServiceNew: the spec passed is dropped for a default one.
ServiceNew_default(spec, capacity) == [spec |-> "s1", statuses |-> <<>>]

\* Service::new: an empty VecDeque of statuses and the spec. The capacity the
\* actor passes sizes the allocation only: a VecDeque grows on demand.
ServiceNew(spec, capacity) == [spec |-> spec, statuses |-> <<>>]

\* BTreeMap::insert / remove / contains_key on the map of services.
contains_key(svcs, name) == name \in DOMAIN svcs

insert(svcs, name, svc) ==
  [n \in DOMAIN svcs \cup {name} |-> IF n = name THEN svc ELSE svcs[n]]

\* Mutant of remove: the record is found but not taken out.
remove_keep(svcs, name) == svcs

remove(svcs, name) == [n \in DOMAIN svcs \ {name} |-> svcs[n]]

\* Mutant of push_front: the status goes to the back.
push_back(q, s) == Append(q, s)

\* VecDeque::push_front.
push_front(q, s) == <<s>> \o q

\* Mutant of abs_diff: the .abs() is missing.
abs_diff_signed(a, b) == a - b

\* chrono: (a - b).abs(), in seconds.
abs_diff(a, b) == IF a >= b THEN a - b ELSE b - a

\* Iterator::min_by_key over statuses front to back, keyed by the distance to
\* `time`: the first of several equally minimal elements is returned.
RECURSIVE min_by_key(_, _, _)
min_by_key(statuses, time, best) ==
  IF statuses = <<>> THEN best
  ELSE LET h == Head(statuses)
           nb == IF best = None THEN Some(h)
                 ELSE IF abs_diff(h.time, time) < abs_diff(best[1].time, time)
                      THEN Some(h) ELSE best
       IN min_by_key(Tail(statuses), time, nb)

\* ------------------------------------------------------------- StateActor
\* Mutant of handle_write: CreateService goes by what BTreeMap::insert returns,
\* so the record of a name already present is replaced before the conflict is
\* reported.
handle_write_insert_first(svcs, capacity, name, msg) ==
  CASE msg.type = "CreateService" ->
         [services |-> insert(svcs, name, [spec |-> msg.spec, statuses |-> <<>>]),
          result |-> IF name \in DOMAIN svcs THEN Err("NameConflict")
                     ELSE Ok(<<>>)]
    [] msg.type = "DeleteService" ->
         IF name \in DOMAIN svcs
         THEN [services |-> [n \in DOMAIN svcs \ {name} |-> svcs[n]],
               result |-> Ok(<<>>)]
         ELSE [services |-> svcs, result |-> Err("NotFound")]
    [] msg.type = "AddStatus" ->
         IF name \in DOMAIN svcs
         THEN [services |-> [svcs EXCEPT ![name].statuses = <<msg.status>> \o @],
               result |-> Ok(<<>>)]
         ELSE [services |-> svcs, result |-> Err("NotFound")]

\* Mutant of handle_write: CreateService takes a name already present for a
\* new one (the check for the key is missing).
handle_write_no_conflict(svcs, capacity, name, msg) ==
  CASE msg.type = "CreateService" ->
         [services |-> insert(svcs, name, [spec |-> msg.spec, statuses |-> <<>>]),
          result |-> Ok(<<>>)]
    [] msg.type = "DeleteService" ->
         IF name \in DOMAIN svcs
         THEN [services |-> [n \in DOMAIN svcs \ {name} |-> svcs[n]],
               result |-> Ok(<<>>)]
         ELSE [services |-> svcs, result |-> Err("NotFound")]
    [] msg.type = "AddStatus" ->
         IF name \in DOMAIN svcs
         THEN [services |-> [svcs EXCEPT ![name].statuses = <<msg.status>> \o @],
               result |-> Ok(<<>>)]
         ELSE [services |-> svcs, result |-> Err("NotFound")]

\* Mutant of handle_write: AddStatus on an absent name goes through the map's
\* entry and leaves an empty record behind before it reports NotFound.
handle_write_upsert(svcs, capacity, name, msg) ==
  CASE msg.type = "CreateService" ->
         IF name \in DOMAIN svcs
         THEN [services |-> svcs, result |-> Err("NameConflict")]
         ELSE [services |-> insert(svcs, name, [spec |-> msg.spec, statuses |-> <<>>]),
               result |-> Ok(<<>>)]
    [] msg.type = "DeleteService" ->
         IF name \in DOMAIN svcs
         THEN [services |-> [n \in DOMAIN svcs \ {name} |-> svcs[n]],
               result |-> Ok(<<>>)]
         ELSE [services |-> svcs, result |-> Err("NotFound")]
    [] msg.type = "AddStatus" ->
         IF name \in DOMAIN svcs
         THEN [services |-> [svcs EXCEPT ![name].statuses = <<msg.status>> \o @],
               result |-> Ok(<<>>)]
         ELSE [services |-> insert(svcs, name, [spec |-> NoSpec, statuses |-> <<>>]),
               result |-> Err("NotFound")]

\* Mutant of handle_write: AddStatus pushes the status to every service.
handle_write_add_to_all(svcs, capacity, name, msg) ==
  CASE msg.type = "CreateService" ->
         IF contains_key(svcs, name)
         THEN [services |-> svcs, result |-> Err("NameConflict")]
         ELSE [services |-> insert(svcs, name, ServiceNew(msg.spec, capacity)),
               result |-> Ok(<<>>)]
    [] msg.type = "DeleteService" ->
         IF contains_key(svcs, name)
         THEN [services |-> remove(svcs, name), result |-> Ok(<<>>)]
         ELSE [services |-> svcs, result |-> Err("NotFound")]
    [] msg.type = "AddStatus" ->
         IF contains_key(svcs, name)
         THEN [services |->
                 [n \in DOMAIN svcs |->
                    [svcs[n] EXCEPT !.statuses = push_front(@, msg.status)]],
               result |-> Ok(<<>>)]
         ELSE [services |-> svcs, result |-> Err("NotFound")]

\* handle_write: the map after the action and the result sent back.
handle_write(svcs, capacity, name, msg) ==
  CASE msg.type = "CreateService" ->
         IF contains_key(svcs, name)
         THEN [services |-> svcs, result |-> Err("NameConflict")]
         ELSE [services |-> insert(svcs, name, ServiceNew(msg.spec, capacity)),
               result |-> Ok(<<>>)]
    [] msg.type = "DeleteService" ->
         IF contains_key(svcs, name)
         THEN [services |-> remove(svcs, name), result |-> Ok(<<>>)]
         ELSE [services |-> svcs, result |-> Err("NotFound")]
    [] msg.type = "AddStatus" ->
         IF contains_key(svcs, name)
         THEN [services |->
                 [svcs EXCEPT ![name].statuses = push_front(@, msg.status)],
               result |-> Ok(<<>>)]
         ELSE [services |-> svcs, result |-> Err("NotFound")]

handle_get_spec(svcs, name) ==
  IF contains_key(svcs, name) THEN Ok(<<svcs[name].spec>>) ELSE Err("NotFound")

handle_get_statuses(svcs, name) ==
  IF contains_key(svcs, name) THEN Ok(<<svcs[name].statuses>>)
  ELSE Err("NotFound")

\* Mutant of handle_get_status_at: an empty history is reported as an error.
handle_get_status_at_empty_err(svcs, name, time) ==
  IF name \in DOMAIN svcs /\ svcs[name].statuses # <<>>
  THEN Ok(<<min_by_key(svcs[name].statuses, time, None)>>)
  ELSE Err("NotFound")

handle_get_status_at(svcs, name, time) ==
  IF contains_key(svcs, name)
  THEN Ok(<<min_by_key(svcs[name].statuses, time, None)>>)
  ELSE Err("NotFound")

\* StateActorMessage, with the caller whose oneshot it carries, its id and
\* the receivers that were subscribed when it was sent.
Message(kind, c, id, name, action, time, receivers) ==
  [kind |-> kind, from |-> c, id |-> id, name |-> name, action |-> action,
   time |-> time, subs |-> receivers]

NoMsg == Message("None", "nobody", 0, NoName, DeleteService, 0, {})

\* Whether oneshot::Sender::send succeeds: the receiver of this very request
\* is still there. The actor ignores the outcome (let _ = ...).
send_ok(msg) == pc[msg.from] = "waiting" /\ cur[msg.from].id = msg.id

\* Mutant of respond_to: one reply slot per caller, shared by its calls.
respond_to_shared(msg, result) ==
  IF pc[msg.from] = "waiting"
  THEN [reply EXCEPT ![msg.from] = <<result>>]
  ELSE reply

\* oneshot::Sender::send: the value reaches the caller only while the caller
\* still waits for this very request; otherwise the send fails and is ignored.
respond_to(msg, result) ==
  IF send_ok(msg)
  THEN [reply EXCEPT ![msg.from] = <<result>>]
  ELSE reply

\* Mutant of broadcast_send: the value is sent twice.
broadcast_send_twice(channel, receivers, value) ==
  IF receivers = {} THEN channel ELSE Append(Append(channel, value), value)

\* tokio broadcast::Sender::send: with no live receiver the value is handed
\* back in an error and the channel keeps nothing.
broadcast_send(channel, receivers, value) ==
  IF receivers = {} THEN channel ELSE Append(channel, value)

\* ---------------------------------------------------------------- actions
InitWith(e) ==
  /\ services = e.loaded
  /\ cap \in e.caps
  /\ queue = <<>>
  /\ pc = [c \in Callers |-> "idle"]
  /\ cur = [c \in Callers |-> NoMsg]
  /\ reply = [c \in Callers |-> <<>>]
  /\ nreq = 0
  /\ bus = <<>>
  /\ pub = <<>>
  /\ subs = {}
  /\ next = [s \in Subscribers |-> 0]
  /\ start = [s \in Subscribers |-> 0]
  /\ seen = [s \in Subscribers |-> <<>>]
  /\ missed = [s \in Subscribers |-> {}]
  /\ log = <<>>
  /\ ret = <<>>
  /\ env = e
  /\ alive = TRUE
  /\ vecbuf = <<>>
  /\ mapbuf = <<>>
  /\ xfer = <<>>

Init == InitWith(ConcEnv)

InitHist == InitWith(HistEnv)

InitBus == \E i \in {"up", "down"} : InitWith(BusEnv(TimedStatus(0, i)))

InitNames == InitWith(NamesEnv)

InitSub == InitWith(SubEnv)

InitKill == InitWith(KillEnv)

InitBuf == InitWith(BufEnv)

InitOrder == InitWith(OrderEnv)

InitLive == InitWith(LiveEnv)

\* Mutant of exchange: the message jumps the queue.
exchange_lifo(c, kind, name, action, time) ==
  /\ pc[c] = "idle"
  /\ nreq < env.maxreq
  /\ nreq' = nreq + 1
  /\ queue' = IF alive
               THEN <<Message(kind, c, nreq + 1, name, action, time, subs)>>
                      \o queue
               ELSE queue
  /\ pc' = [pc EXCEPT ![c] = "waiting"]
  /\ cur' = [cur EXCEPT
                ![c] = Message(kind, c, nreq + 1, name, action, time, subs)]
  /\ ret' = Append(ret, <<>>)
  /\ UNCHANGED <<storeVars, reply, busVars, log, env, auxVars>>

\* StateActorHandle::exchange up to recv.await: the message is sent; the send
\* fails, and the failure is ignored, when the actor's receiver is gone.
exchange(c, kind, name, action, time) ==
  /\ pc[c] = "idle"
  /\ nreq < env.maxreq
  /\ nreq' = nreq + 1
  /\ queue' = IF alive
               THEN Append(queue,
                           Message(kind, c, nreq + 1, name, action, time, subs))
               ELSE queue
  /\ pc' = [pc EXCEPT ![c] = "waiting"]
  /\ cur' = [cur EXCEPT
                ![c] = Message(kind, c, nreq + 1, name, action, time, subs)]
  /\ ret' = Append(ret, <<>>)
  /\ UNCHANGED <<storeVars, reply, busVars, log, env, auxVars>>

\* StateActorHandle::write, up to the await in exchange.
write(c) ==
  \E name \in env.names, type \in env.types :
    \E spec \in env.specs, s \in env.statuses :
      LET action == CASE type = "CreateService" -> CreateService(spec)
                      [] type = "DeleteService" -> DeleteService
                      [] type = "AddStatus" -> AddStatus(s)
      IN exchange(c, "Write", name, action, 0)

get_statuses(c) ==
  \E name \in env.names : exchange(c, "GetStatuses", name, DeleteService, 0)

get_status_at(c) ==
  \E name \in env.names, time \in env.times :
    exchange(c, "GetStatusAt", name, DeleteService, time)

get_spec(c) ==
  \E name \in env.names : exchange(c, "GetSpec", name, DeleteService, 0)

\* Mutant of run_step: the handler ran on a copy of the map, which is dropped.
run_step_on_copy(kind, result, svcs) ==
  /\ alive
  /\ queue # <<>>
  /\ Head(queue).kind = kind
  /\ queue' = Tail(queue)
  /\ services' = services
  /\ reply' = respond_to(Head(queue), result)
  /\ log' = Append(log, [req |-> Head(queue), res |-> result,
                          pre |-> services, post |-> svcs,
                          sent |-> send_ok(Head(queue))])
  /\ UNCHANGED <<cap, pc, cur, nreq, busVars, ret, env, auxVars>>

\* Mutant of run_step: the actor waits for a receiver that takes the reply.
run_step_stall(kind, result, svcs) ==
  /\ alive
  /\ queue # <<>>
  /\ Head(queue).kind = kind
  /\ send_ok(Head(queue))
  /\ queue' = Tail(queue)
  /\ services' = svcs
  /\ reply' = respond_to(Head(queue), result)
  /\ log' = Append(log, [req |-> Head(queue), res |-> result,
                          pre |-> services, post |-> svcs,
                          sent |-> send_ok(Head(queue))])
  /\ UNCHANGED <<cap, pc, cur, nreq, busVars, ret, env, auxVars>>

\* StateActor::run, one iteration for each arm of its match.
run_step(kind, result, svcs) ==
  /\ alive
  /\ queue # <<>>
  /\ Head(queue).kind = kind
  /\ queue' = Tail(queue)
  /\ services' = svcs
  /\ reply' = respond_to(Head(queue), result)
  /\ log' = Append(log, [req |-> Head(queue), res |-> result,
                          pre |-> services, post |-> svcs,
                          sent |-> send_ok(Head(queue))])
  /\ UNCHANGED <<cap, pc, cur, nreq, busVars, ret, env, auxVars>>

run_Write ==
  /\ queue # <<>>
  /\ Head(queue).kind = "Write"
  /\ LET m == Head(queue)
         w == handle_write(services, cap, m.name, m.action)
     IN run_step("Write", w.result, w.services)

run_GetStatuses ==
  /\ queue # <<>>
  /\ run_step("GetStatuses", handle_get_statuses(services, Head(queue).name),
              services)

run_GetStatusAt ==
  /\ queue # <<>>
  /\ run_step("GetStatusAt",
              handle_get_status_at(services, Head(queue).name, Head(queue).time),
              services)

run_GetSpec ==
  /\ queue # <<>>
  /\ run_step("GetSpec", handle_get_spec(services, Head(queue).name), services)

\* Mutant of write_return: the send waits until the slowest receiver has room.
write_return_bounded(c) ==
  /\ pc[c] = "waiting"
  /\ cur[c].kind = "Write"
  /\ reply[c] # <<>>
  /\ \A s \in subs : Len(bus) - next[s] < BusCap
  /\ LET resp == reply[c][1]
         value == [id |-> cur[c].id, name |-> cur[c].name,
                   action |-> cur[c].action]
     IN /\ bus' = IF resp.ok THEN broadcast_send(bus, subs, value) ELSE bus
        /\ pub' = IF resp.ok THEN Append(pub, value) ELSE pub
        /\ ret' = [ret EXCEPT ![cur[c].id] = <<resp, nreq>>]
  /\ pc' = [pc EXCEPT ![c] = "idle"]
  /\ cur' = [cur EXCEPT ![c] = NoMsg]
  /\ reply' = [reply EXCEPT ![c] = <<>>]
  /\ UNCHANGED <<storeVars, queue, nreq, subs, next, start, seen, missed, log,
                 env, auxVars>>

\* Mutant of write_return: the result is republished whatever it is.
write_return_always(c) ==
  /\ pc[c] = "waiting"
  /\ cur[c].kind = "Write"
  /\ reply[c] # <<>>
  /\ LET resp == reply[c][1]
         value == [id |-> cur[c].id, name |-> cur[c].name,
                   action |-> cur[c].action]
     IN /\ bus' = broadcast_send(bus, subs, value)
        /\ pub' = Append(pub, value)
        /\ ret' = [ret EXCEPT ![cur[c].id] = <<resp, nreq>>]
  /\ pc' = [pc EXCEPT ![c] = "idle"]
  /\ cur' = [cur EXCEPT ![c] = NoMsg]
  /\ reply' = [reply EXCEPT ![c] = <<>>]
  /\ UNCHANGED <<storeVars, queue, nreq, subs, next, start, seen, missed, log,
                 env, auxVars>>

\* StateActorHandle::write after the await: an Ok is republished, then the
\* result is returned to the caller.
write_return(c) ==
  /\ pc[c] = "waiting"
  /\ cur[c].kind = "Write"
  /\ reply[c] # <<>>
  /\ LET resp == reply[c][1]
         value == [id |-> cur[c].id, name |-> cur[c].name,
                   action |-> cur[c].action]
     IN /\ bus' = IF resp.ok THEN broadcast_send(bus, subs, value) ELSE bus
        /\ pub' = IF resp.ok THEN Append(pub, value) ELSE pub
        /\ ret' = [ret EXCEPT ![cur[c].id] = <<resp, nreq>>]
  /\ pc' = [pc EXCEPT ![c] = "idle"]
  /\ cur' = [cur EXCEPT ![c] = NoMsg]
  /\ reply' = [reply EXCEPT ![c] = <<>>]
  /\ UNCHANGED <<storeVars, queue, nreq, subs, next, start, seen, missed, log,
                 env, auxVars>>

\* Mutant of exchange_return: get_statuses hands out a view of the statuses in
\* the map, read when the caller looks at it.
exchange_return_live(c) ==
  /\ pc[c] = "waiting"
  /\ cur[c].kind \in {"GetStatuses", "GetStatusAt", "GetSpec"}
  /\ reply[c] # <<>>
  /\ ret' = [ret EXCEPT
                ![cur[c].id] =
                  <<IF cur[c].kind = "GetStatuses"
                    THEN handle_get_statuses(services, cur[c].name)
                    ELSE reply[c][1], nreq>>]
  /\ pc' = [pc EXCEPT ![c] = "idle"]
  /\ cur' = [cur EXCEPT ![c] = NoMsg]
  /\ reply' = [reply EXCEPT ![c] = <<>>]
  /\ UNCHANGED <<storeVars, queue, nreq, busVars, log, env, auxVars>>

\* get_statuses / get_status_at / get_spec after the await in exchange.
exchange_return(c) ==
  /\ pc[c] = "waiting"
  /\ cur[c].kind \in {"GetStatuses", "GetStatusAt", "GetSpec"}
  /\ reply[c] # <<>>
  /\ ret' = [ret EXCEPT ![cur[c].id] = <<reply[c][1], nreq>>]
  /\ pc' = [pc EXCEPT ![c] = "idle"]
  /\ cur' = [cur EXCEPT ![c] = NoMsg]
  /\ reply' = [reply EXCEPT ![c] = <<>>]
  /\ UNCHANGED <<storeVars, queue, nreq, busVars, log, env, auxVars>>

\* The caller's future is dropped at the await (select!, a closed connection):
\* its oneshot receiver goes, with whatever was sent into it.
abandon(c) ==
  /\ pc[c] = "waiting"
  /\ pc' = [pc EXCEPT ![c] = "idle"]
  /\ cur' = [cur EXCEPT ![c] = NoMsg]
  /\ reply' = [reply EXCEPT ![c] = <<>>]
  /\ UNCHANGED <<storeVars, queue, nreq, busVars, log, ret, env, auxVars>>

\* The actor task ends (it is aborted, or its runtime shuts down): the mpsc
\* receiver is dropped with the messages in it, and so are their oneshot
\* senders.
kill ==
  /\ alive
  /\ alive' = FALSE
  /\ queue' = <<>>
  /\ UNCHANGED <<storeVars, callerVars, nreq, busVars, log, ret, env, bufVars>>

\* exchange's recv.await when the oneshot sender was dropped without a reply:
\* RecvError, and expect("Actor task has been killed") panics the caller.
exchange_panic(c) ==
  /\ pc[c] = "waiting"
  /\ ~alive
  /\ reply[c] = <<>>
  /\ pc' = [pc EXCEPT ![c] = "panicked"]
  /\ cur' = [cur EXCEPT ![c] = NoMsg]
  /\ UNCHANGED <<storeVars, queue, reply, nreq, busVars, log, ret, env, auxVars>>

\* Mutant of subscribe: the receiver starts at the oldest value ever sent.
subscribe_from_oldest(s) ==
  /\ s \notin subs
  /\ subs' = subs \cup {s}
  /\ next' = [next EXCEPT ![s] = 0]
  /\ start' = [start EXCEPT ![s] = Len(bus)]
  /\ UNCHANGED <<storeVars, queue, callerVars, nreq, bus, pub, seen, missed,
                 log, ret, env, auxVars>>

\* StateActorHandle::subscribe: a receiver that starts at the channel's tail.
subscribe(s) ==
  /\ s \notin subs
  /\ subs' = subs \cup {s}
  /\ next' = [next EXCEPT ![s] = Len(bus)]
  /\ start' = [start EXCEPT ![s] = Len(bus)]
  /\ UNCHANGED <<storeVars, queue, callerVars, nreq, bus, pub, seen, missed,
                 log, ret, env, auxVars>>

\* broadcast::Receiver::recv with a value pending: the next value, or, when
\* more than BusCap values are pending, RecvError::Lagged and a jump to the
\* oldest value the channel still holds.
recv(s) ==
  /\ s \in subs
  /\ next[s] < Len(bus)
  /\ IF Len(bus) - next[s] > BusCap
     THEN /\ next' = [next EXCEPT ![s] = Len(bus) - BusCap]
          /\ missed' = [missed EXCEPT
                          ![s] = @ \cup ((next[s] + 1)..(Len(bus) - BusCap))]
          /\ seen' = seen
     ELSE /\ next' = [next EXCEPT ![s] = @ + 1]
          /\ seen' = [seen EXCEPT ![s] = Append(@, bus[next[s] + 1])]
          /\ missed' = missed
  /\ UNCHANGED <<storeVars, queue, callerVars, nreq, bus, pub, subs, start,
                 log, ret, env, auxVars>>

\* ------------------------------------------- distributor: HTTP handlers
\* axum::http::StatusCode, as used by the handlers.
StatusCode_OK == 200
StatusCode_NO_CONTENT == 204
StatusCode_NOT_FOUND == 404
StatusCode_CONFLICT == 409

\* put_action: the status it answers with for the result of handle.write.
put_action(resp) ==
  IF resp.ok THEN StatusCode_NO_CONTENT
  ELSE IF resp.err = "NameConflict" THEN StatusCode_CONFLICT
  ELSE StatusCode_NOT_FOUND

\* The get_statuses and get_status_at handlers: the status they answer with
\* for the result of handle.get_statuses / handle.get_status_at.
get_statuses_handler(resp) ==
  IF resp.ok THEN StatusCode_OK ELSE StatusCode_NOT_FOUND

get_status_at_handler(resp) ==
  IF resp.ok THEN StatusCode_OK ELSE StatusCode_NOT_FOUND

\* ------------------------------------------- swec-core: StatusBuffer
\* impl StatusBuffer for VecBuffer (a Vec of (time, status) pairs).
VecBuffer_push(b, status) == Append(b, status)

VecBuffer_get(b, index) == IF index < Len(b) THEN Some(b[index + 1]) ELSE None

VecBuffer_len(b) == Len(b)

VecBuffer_from_vec(vec) == vec

VecBuffer_as_vec(b) == b

\* BTreeMap::iter: the entries in ascending key order.
RECURSIVE iter(_, _)
iter(m, keys) ==
  IF keys = {} THEN <<>>
  ELSE LET k == CHOOSE x \in keys : \A y \in keys : x <= y
       IN <<<<k, m[k]>>>> \o iter(m, keys \ {k})

\* impl StatusBuffer for BTreeMapBuffer (a BTreeMap from time to status).
BTreeMapBuffer_push(m, status) == insert(m, status[1], status[2])

BTreeMapBuffer_get(m, index) ==
  IF index < Len(iter(m, DOMAIN m)) THEN Some(iter(m, DOMAIN m)[index + 1])
  ELSE None

BTreeMapBuffer_len(m) == Cardinality(DOMAIN m)

\* Mutant of collect: an entry whose time is already there is skipped.
RECURSIVE collect_first_wins(_, _)
collect_first_wins(m, vec) ==
  IF vec = <<>> THEN m
  ELSE collect_first_wins(
         IF Head(vec)[1] \in DOMAIN m THEN m
         ELSE BTreeMapBuffer_push(m, Head(vec)),
         Tail(vec))

\* Iterator::collect into a BTreeMap: the pairs are inserted in order.
RECURSIVE collect(_, _)
collect(m, vec) ==
  IF vec = <<>> THEN m
  ELSE collect(BTreeMapBuffer_push(m, Head(vec)), Tail(vec))

BTreeMapBuffer_from_vec(vec) == collect(<<>>, vec)

BTreeMapBuffer_as_vec(m) == iter(m, DOMAIN m)

\* A caller of swec-core pushes a status, takes a buffer out as a VecBuffer,
\* or builds a buffer from the VecBuffer it holds.
vec_push ==
  /\ Len(vecbuf) < MaxBufLen
  /\ \E t \in env.times, st \in env.statuses :
       vecbuf' = VecBuffer_push(vecbuf, <<t, st>>)
  /\ UNCHANGED <<storeVars, queue, callerVars, nreq, busVars, log, ret, env,
                 alive, mapbuf, xfer>>

map_push ==
  /\ \E t \in env.times, st \in env.statuses :
       mapbuf' = BTreeMapBuffer_push(mapbuf, <<t, st>>)
  /\ UNCHANGED <<storeVars, queue, callerVars, nreq, busVars, log, ret, env,
                 alive, vecbuf, xfer>>

vec_as_vec ==
  /\ xfer' = VecBuffer_as_vec(vecbuf)
  /\ UNCHANGED <<storeVars, queue, callerVars, nreq, busVars, log, ret, env,
                 alive, vecbuf, mapbuf>>

map_as_vec ==
  /\ xfer' = BTreeMapBuffer_as_vec(mapbuf)
  /\ UNCHANGED <<storeVars, queue, callerVars, nreq, busVars, log, ret, env,
                 alive, vecbuf, mapbuf>>

vec_from_vec ==
  /\ vecbuf' = VecBuffer_from_vec(xfer)
  /\ UNCHANGED <<storeVars, queue, callerVars, nreq, busVars, log, ret, env,
                 alive, mapbuf, xfer>>

map_from_vec ==
  /\ mapbuf' = BTreeMapBuffer_from_vec(xfer)
  /\ UNCHANGED <<storeVars, queue, callerVars, nreq, busVars, log, ret, env,
                 alive, vecbuf, xfer>>

\* The engine and its callers, without cancellation and without subscribers.
NextCore ==
  \/ \E c \in env.callers : write(c)
  \/ \E c \in env.callers : get_statuses(c)
  \/ \E c \in env.callers : get_status_at(c)
  \/ \E c \in env.callers : get_spec(c)
  \/ run_Write
  \/ run_GetStatuses
  \/ run_GetStatusAt
  \/ run_GetSpec
  \/ \E c \in env.callers : write_return(c)
  \/ \E c \in env.callers : exchange_return(c)

\* The engine and its callers, with cancellation.
Next ==
  \/ NextCore
  \/ \E c \in env.callers : abandon(c)

\* The engine, its writers and the receivers of the broadcast channel.
NextBus ==
  \/ \E c \in env.callers : write(c)
  \/ run_Write
  \/ \E c \in env.callers : write_return(c)
  \/ \E s \in env.subscribers : subscribe(s)
  \/ \E s \in env.subscribers : recv(s)

\* The engine, a caller that writes and reads, and late subscribers.
NextSub ==
  \/ \E c \in env.callers : write(c)
  \/ \E c \in env.callers : get_spec(c)
  \/ run_Write
  \/ run_GetSpec
  \/ \E c \in env.callers : write_return(c)
  \/ \E c \in env.callers : exchange_return(c)
  \/ \E s \in env.subscribers : subscribe(s)
  \/ \E s \in env.subscribers : recv(s)

\* The engine and its callers, with an actor task that may end.
NextKill ==
  \/ NextCore
  \/ kill
  \/ \E c \in env.callers : exchange_panic(c)

\* The status buffers of swec-core and their conversions.
NextBuf ==
  \/ vec_push
  \/ map_push
  \/ vec_as_vec
  \/ map_as_vec
  \/ vec_from_vec
  \/ map_from_vec

Spec == Init /\ [][Next]_vars

SpecBuf == InitBuf /\ [][NextBuf]_vars

\* Concurrent writers and a receiver of the broadcast channel.
SpecOrder == InitOrder /\ [][NextBus]_vars

SpecKill == InitKill /\ [][NextKill]_vars

SpecSub == InitSub /\ [][NextSub]_vars

SpecHist == InitHist /\ [][NextCore]_vars

SpecBus == InitBus /\ [][NextBus]_vars

SpecNames == InitNames /\ [][NextCore]_vars

\* ----------------------------------------------------------------- claims
\* What the worker has served, by position in the order it served it.
Served == 1..Len(log)

IsWrite(e, type) == e.req.kind = "Write" /\ e.req.action.type = type

IsRead(e) == e.req.kind \in {"GetSpec", "GetStatuses", "GetStatusAt"}

Max(S) == CHOOSE x \in S : \A y \in S : y <= x

\* The creates and deletes of name n that succeeded among the first k served.
CreatedOrDeleted(n, k) ==
  {i \in 1..k : /\ log[i].req.name = n
                /\ log[i].res.ok
                /\ \/ IsWrite(log[i], "CreateService")
                   \/ IsWrite(log[i], "DeleteService")}

\* A create of n has succeeded, and no delete of n since, after k served.
Live(n, k) ==
  LET S == CreatedOrDeleted(n, k)
  IN S # {} /\ IsWrite(log[Max(S)], "CreateService")

\* The result handed back to the caller of request id, if its call returned.
Returned(id) == ret[id] # <<>>

\* C1: a name is in the map if and only if a CreateService for it succeeded
\* and no DeleteService for it succeeded since, and no reply of the worker,
\* and no result returned to a caller, says otherwise.
C1_PresentIffCreatedNotDeleted ==
  /\ \A n \in env.names : n \in DOMAIN services <=> Live(n, Len(log))
  /\ DOMAIN services \subseteq env.names
  /\ \A i \in Served :
       LET e == log[i]
           was == Live(e.req.name, i - 1)
       IN /\ IsWrite(e, "CreateService") =>
               e.res = IF was THEN Err("NameConflict") ELSE Ok(<<>>)
          /\ IsWrite(e, "DeleteService") \/ IsWrite(e, "AddStatus") =>
               e.res = IF was THEN Ok(<<>>) ELSE Err("NotFound")
          /\ IsRead(e) => /\ e.res.ok <=> was
                          /\ ~e.res.ok => e.res = Err("NotFound")
          /\ Returned(e.req.id) => ret[e.req.id][1] = e.res
  /\ \A id \in 1..Len(ret) : Returned(id) => \E i \in Served : log[i].req.id = id

\* Two callers: one created the name, the other deleted it, and a later read
\* was answered NotFound and returned to its caller.
C1_Witness ==
  \E i, j, k \in Served :
    /\ i < j /\ j < k
    /\ IsWrite(log[i], "CreateService") /\ log[i].res.ok
    /\ IsWrite(log[j], "DeleteService") /\ log[j].res.ok
    /\ log[i].req.from # log[j].req.from
    /\ log[k].req.kind = "GetSpec" /\ ~log[k].res.ok
    /\ Returned(log[k].req.id)
    /\ services = <<>>

\* No request for the name of log[i] was served between i and j.
Adjacent(i, j) ==
  /\ i < j
  /\ log[i].req.name = log[j].req.name
  /\ \A k \in (i + 1)..(j - 1) : log[k].req.name # log[i].req.name

\* C2: a CreateService(name, spec) that succeeds, followed by GetSpec(name)
\* with no other request for the name in between, makes GetSpec return spec.
C2_CreateThenGetSpec ==
  \A i, j \in Served :
    ( /\ Adjacent(i, j)
      /\ IsWrite(log[i], "CreateService") /\ log[i].res.ok
      /\ log[j].req.kind = "GetSpec" ) =>
    /\ log[j].res = Ok(<<log[i].req.action.spec>>)
    /\ Returned(log[j].req.id) =>
         ret[log[j].req.id][1] = Ok(<<log[i].req.action.spec>>)

C2_Witness ==
  \E i, j \in Served :
    /\ Adjacent(i, j)
    /\ IsWrite(log[i], "CreateService") /\ log[i].res.ok
    /\ log[i].req.action.spec = "s2"
    /\ log[j].req.kind = "GetSpec"
    /\ Returned(log[j].req.id)
    /\ ret[log[j].req.id][1].val = <<"s2">>

\* C3: CreateService on a name already present fails with NameConflict and
\* leaves the map as it was: the record keeps its spec and its statuses.
C3_CreateTwiceConflict ==
  \A i \in Served :
    (IsWrite(log[i], "CreateService") /\ log[i].req.name \in DOMAIN log[i].pre) =>
    /\ log[i].res = Err("NameConflict")
    /\ log[i].post = log[i].pre

\* A second create, with another spec, of a service that has a status.
C3_Witness ==
  \E i \in Served :
    /\ IsWrite(log[i], "CreateService")
    /\ log[i].req.name \in DOMAIN log[i].pre
    /\ log[i].pre[log[i].req.name].statuses # <<>>
    /\ log[i].pre[log[i].req.name].spec # log[i].req.action.spec
    /\ log[i].res.err = "NameConflict"

\* A create of the name of log[i] succeeded after i and before j.
CreatedBetween(i, j) ==
  \E k \in (i + 1)..(j - 1) :
    /\ log[k].req.name = log[i].req.name
    /\ IsWrite(log[k], "CreateService")
    /\ log[k].res.ok

\* C4: DeleteService on a present name succeeds and removes the record, and
\* every later GetSpec, GetHistory, GetStatusNear, AppendStatus and
\* DeleteService for the name fails with NotFound until a create succeeds.
C4_DeleteRemoves ==
  \A i \in Served :
    (IsWrite(log[i], "DeleteService") /\ log[i].req.name \in DOMAIN log[i].pre) =>
    /\ log[i].res = Ok(<<>>)
    /\ log[i].req.name \notin DOMAIN log[i].post
    /\ \A j \in Served :
         ( /\ i < j
           /\ log[j].req.name = log[i].req.name
           /\ ~IsWrite(log[j], "CreateService")
           /\ ~CreatedBetween(i, j) ) =>
         log[j].res = Err("NotFound")

C4_Witness ==
  \E i, j \in Served :
    /\ i < j
    /\ IsWrite(log[i], "DeleteService") /\ log[i].res.ok
    /\ log[j].req.kind = "GetSpec"
    /\ log[j].req.name = log[i].req.name
    /\ log[j].res.err = "NotFound"

\* C5: every request but CreateService fails with NotFound on an absent name,
\* and a request that fails leaves the whole map as it was; the map changes
\* in no other step than the worker's.
C5_ErrorsLeaveStore ==
  /\ \A i \in Served :
       /\ ~log[i].res.ok => log[i].post = log[i].pre
       /\ (log[i].req.name \notin DOMAIN log[i].pre
             /\ ~IsWrite(log[i], "CreateService")) =>
            log[i].res = Err("NotFound")
  /\ services = IF log = <<>> THEN env.loaded ELSE log[Len(log)].post

\* AddStatus and a read of an absent name fail beside a present service.
C5_Witness ==
  \E i, j \in Served :
    /\ IsWrite(log[i], "AddStatus")
    /\ log[i].req.name = "b" /\ log[i].res.err = "NotFound"
    /\ "a" \in DOMAIN log[i].pre
    /\ log[j].req.kind = "GetStatuses"
    /\ log[j].req.name = "b" /\ log[j].res.err = "NotFound"
    /\ DOMAIN services = {"a"}

\* C6: the status history of every service is at most cap long.
C6_HistoryWithinCapacity ==
  \A n \in DOMAIN services : Len(services[n].statuses) <= cap

\* The AddStatus requests on n accepted since n was last created.
AcceptedAdds(n) ==
  LET S == CreatedOrDeleted(n, Len(log))
      born == IF S = {} THEN 0 ELSE Max(S)
  IN {i \in Served : /\ i > born
                     /\ log[i].req.name = n
                     /\ IsWrite(log[i], "AddStatus")
                     /\ log[i].res.ok}

\* The c most recent of the requests A.
MostRecent(A, c) == {i \in A : Cardinality({j \in A : j > i}) < c}

Count(q, x) == Cardinality({k \in 1..Len(q) : q[k] = x})

\* C7: after more accepted AddStatus requests than cap, the history holds
\* exactly the cap most recently appended entries.
C7_KeepsMostRecent ==
  \A n \in DOMAIN services :
    LET A == AcceptedAdds(n)
        R == MostRecent(A, cap)
    IN Cardinality(A) > cap =>
         /\ Len(services[n].statuses) = cap
         /\ \A x \in env.statuses :
              Count(services[n].statuses, x) =
                Cardinality({i \in R : log[i].req.action.status = x})

Dist(a, b) == IF a >= b THEN a - b ELSE b - a

Entries(q) == {q[k] : k \in 1..Len(q)}

\* C8: GetStatusNear on a present service with a non-empty history returns an
\* entry of the history whose distance to the time asked is minimal; with
\* entries at 0 and 10 that is the entry at 0 for 4 and the one at 10 for 6.
C8_NearestIsMinimal ==
  \A i \in Served :
    LET e == log[i]
        n == e.req.name
    IN ( /\ e.req.kind = "GetStatusAt"
         /\ n \in DOMAIN e.pre
         /\ e.pre[n].statuses # <<>> ) =>
       LET h == e.pre[n].statuses
       IN /\ e.res.ok
          /\ Len(e.res.val[1]) = 1
          /\ e.res.val[1][1] \in Entries(h)
          /\ \A x \in Entries(h) :
               Dist(e.res.val[1][1].time, e.req.time) <= Dist(x.time, e.req.time)
          /\ {x.time : x \in Entries(h)} = {0, 10} =>
               /\ e.req.time = 4 => e.res.val[1][1].time = 0
               /\ e.req.time = 6 => e.res.val[1][1].time = 10
          /\ Returned(e.req.id) => ret[e.req.id][1] = e.res

\* Entries at 10 and then at 0: the entry at 10 is returned for time 6, and
\* it is not the one the scan meets first.
C8_Witness ==
  \E i \in Served :
    /\ log[i].req.kind = "GetStatusAt"
    /\ log[i].req.time = 6
    /\ log[i].req.name \in DOMAIN log[i].pre
    /\ Len(log[i].pre[log[i].req.name].statuses) = 2
    /\ log[i].pre[log[i].req.name].statuses[1].time = 0
    /\ log[i].pre[log[i].req.name].statuses[2].time = 10
    /\ log[i].res.val = <<Some(log[i].pre[log[i].req.name].statuses[2])>>
    /\ Returned(log[i].req.id)

\* C9: GetStatusNear on a present service with an empty history succeeds
\* with none, and it fails with NotFound only on an absent name.
C9_EmptyHistoryIsNone ==
  \A i \in Served :
    LET e == log[i]
        n == e.req.name
    IN e.req.kind = "GetStatusAt" =>
         /\ (n \in DOMAIN e.pre /\ e.pre[n].statuses = <<>>) => e.res = Ok(<<None>>)
         /\ ~e.res.ok <=> n \notin DOMAIN e.pre
         /\ ~e.res.ok => e.res = Err("NotFound")
         /\ Returned(e.req.id) => ret[e.req.id][1] = e.res

C9_Witness ==
  \E i \in Served :
    /\ log[i].req.kind = "GetStatusAt"
    /\ log[i].req.name \in DOMAIN log[i].pre
    /\ log[i].pre[log[i].req.name].statuses = <<>>
    /\ log[i].res.ok /\ log[i].res.val = <<None>>
    /\ Returned(log[i].req.id)

\* Where the broadcast channel holds the notification of request id.
Pos(id) == {p \in 1..Len(bus) : bus[p].id = id}

\* How many times receiver s was handed the notification of request id.
SeenCount(s, id) == Cardinality({k \in 1..Len(seen[s]) : seen[s][k].id = id})

\* Receiver s was subscribed when the AddStatus log[i] was sent, and the
\* write call returned Ok to its caller.
AppendedFor(s, i) ==
  /\ IsWrite(log[i], "AddStatus")
  /\ s \in log[i].req.subs
  /\ Returned(log[i].req.id)
  /\ ret[log[i].req.id][1].ok

\* The notification of log[i] is in the channel once, after the place where s
\* subscribed, with the name and the status of the request, and s was handed
\* it at most once, with the same name and status.
PublishedOnceFor(s, i) ==
  /\ Cardinality(Pos(log[i].req.id)) = 1
  /\ \A p \in Pos(log[i].req.id) :
       /\ p > start[s]
       /\ bus[p].name = log[i].req.name
       /\ bus[p].action = log[i].req.action
  /\ SeenCount(s, log[i].req.id) <= 1
  /\ \A k \in 1..Len(seen[s]) :
       seen[s][k].id = log[i].req.id =>
         /\ seen[s][k].name = log[i].req.name
         /\ seen[s][k].action = log[i].req.action

\* C10 as stated: a receiver subscribed before a successful AppendStatus
\* observes exactly one notification for it, with its name and status, once
\* it has received past its place in the channel: never zero, never two.
C10_ExactlyOneNotification ==
  \A s \in subs, i \in Served :
    AppendedFor(s, i) =>
      /\ PublishedOnceFor(s, i)
      /\ \A p \in Pos(log[i].req.id) :
           next[s] >= p => SeenCount(s, log[i].req.id) = 1

\* C10 as amended: the notification is sent exactly once, and the receiver
\* observes it exactly once, with its name and status, once it has received
\* past it, unless BusCap or more later notifications had been sent by then:
\* the receiver is then told it lagged and observes it zero times.
C10_ExactlyOneUnlessLagged ==
  \A s \in subs, i \in Served :
    AppendedFor(s, i) =>
      /\ PublishedOnceFor(s, i)
      /\ \A p \in Pos(log[i].req.id) :
           /\ next[s] >= p =>
                SeenCount(s, log[i].req.id) = IF p \in missed[s] THEN 0 ELSE 1
           /\ next[s] < p => SeenCount(s, log[i].req.id) = 0
           /\ p \in missed[s] => /\ next[s] >= p
                                 /\ Len(bus) - p >= BusCap

\* A receiver subscribed before an append that returned Ok has been handed
\* its notification.
C10_Witness ==
  \E s \in subs, i \in Served :
    /\ AppendedFor(s, i)
    /\ SeenCount(s, log[i].req.id) = 1
    /\ log[i].req.action.status.inner = "down"

\* The position in the worker's order of the request with this id (0: the
\* worker has not served it).
ServedAt(id) ==
  IF \E k \in Served : log[k].req.id = id
  THEN CHOOSE k \in Served : log[k].req.id = id
  ELSE 0

\* A value of the broadcast channel is the (name, action) of a write the
\* worker answered Ok and applied.
OfAcceptedWrite(v) ==
  /\ ServedAt(v.id) # 0
  /\ LET e == log[ServedAt(v.id)]
     IN /\ e.req.kind = "Write"
        /\ e.res.ok
        /\ e.req.name = v.name
        /\ e.req.action = v.action
        /\ e.post = handle_write(e.pre, cap, v.name, v.action).services

\* C11: every value sent to the broadcast channel, every value the channel
\* holds and every value a receiver got is the (name, action) of a write the
\* worker accepted and applied; a write answered NameConflict or NotFound and
\* a read request are never the origin of one.
C11_OnlyAcceptedWritesPublished ==
  /\ \A i \in 1..Len(pub) : OfAcceptedWrite(pub[i])
  /\ \A i \in 1..Len(bus) : OfAcceptedWrite(bus[i])
  /\ \A s \in Subscribers : \A i \in 1..Len(seen[s]) : OfAcceptedWrite(seen[s][i])
  /\ \A k \in Served :
       (~log[k].res.ok \/ IsRead(log[k]))
         => \A i \in 1..Len(pub) : pub[i].id # log[k].req.id

\* A failed write and a read have returned, and a receiver holds the one
\* notification of the run.
C11_Witness ==
  /\ \E k \in Served : /\ log[k].req.kind = "Write"
                        /\ ~log[k].res.ok
                        /\ Returned(log[k].req.id)
  /\ \E k \in Served : IsRead(log[k]) /\ Returned(log[k].req.id)
  /\ Len(pub) = 1
  /\ \E s \in Subscribers : Len(seen[s]) = 1

\* No call is in progress: nothing is queued and no caller is in its await.
Quiescent == queue = <<>> /\ \A c \in env.callers : pc[c] = "idle"

\* C12: every write the worker accepted and applied is sent to the broadcast
\* channel as (name, action), also when its caller gave up its wait: once no
\* call is in progress, no accepted write is missing from what was
\* published.
C12_CommittedIsPublished ==
  Quiescent =>
    \A k \in Served :
      (log[k].req.kind = "Write" /\ log[k].res.ok)
        => \E i \in 1..Len(pub) :
             /\ pub[i].id = log[k].req.id
             /\ pub[i].name = log[k].req.name
             /\ pub[i].action = log[k].req.action

\* The map after the requests served at positions i..j are applied, one at a
\* time, to the map svcs.
RECURSIVE ApplyServed(_, _, _)
ApplyServed(svcs, i, j) ==
  IF i > j THEN svcs
  ELSE ApplyServed(
         IF log[i].req.kind = "Write"
         THEN handle_write(svcs, cap, log[i].req.name, log[i].req.action).services
         ELSE svcs,
         i + 1, j)

\* The answer of a read request on the map svcs.
ReadOn(svcs, req) ==
  CASE req.kind = "GetSpec" -> handle_get_spec(svcs, req.name)
    [] req.kind = "GetStatuses" -> handle_get_statuses(svcs, req.name)
    [] req.kind = "GetStatusAt" -> handle_get_status_at(svcs, req.name, req.time)

\* Request r was issued after the call of request w returned to its caller.
IssuedAfterReturn(r, w) == Returned(w) /\ ret[w][2] < r

\* C13: a read issued after a write was acknowledged to its caller is served
\* after that write, on the map that write left as changed by the writes
\* served between the two only, and its answer, which is what its caller
\* gets, is computed on that map.
C13_NoStaleRead ==
  \A j \in Served : \A k \in Served :
    (/\ IsRead(log[j])
     /\ log[k].req.kind = "Write"
     /\ IssuedAfterReturn(log[j].req.id, log[k].req.id))
      => /\ k < j
         /\ log[k].post = handle_write(log[k].pre, cap, log[k].req.name,
                                       log[k].req.action).services
         /\ log[j].pre = ApplyServed(log[k].post, k + 1, j - 1)
         /\ log[j].res = ReadOn(log[j].pre, log[j].req)
         /\ Returned(log[j].req.id) => ret[log[j].req.id][1] = log[j].res

\* Caller c1's create was acknowledged, then c2 issued a get_spec, which
\* returned the spec created.
C13_Witness ==
  \E j \in Served : \E k \in Served :
    /\ IsRead(log[j]) /\ log[j].req.from # log[k].req.from
    /\ IsWrite(log[k], "CreateService") /\ log[k].res.ok
    /\ IssuedAfterReturn(log[j].req.id, log[k].req.id)
    /\ Returned(log[j].req.id)
    /\ ret[log[j].req.id][1] = Ok(<<log[k].req.action.spec>>)

\* The sequential name -> record map: the reply to one request on the map
\* svcs, as a single transition.
SeqReply(svcs, req) ==
  IF req.kind = "Write"
  THEN handle_write(svcs, cap, req.name, req.action).result
  ELSE ReadOn(svcs, req)

\* C14: the worker serves the requests in the order they entered the queue;
\* each is answered as the sequential map answers it after the requests
\* before it, applied one at a time from the initial map; every call that
\* returns, of any caller, returns that answer; and a call that returned
\* before another was issued is ordered before it.
C14_Linearizable ==
  /\ \A i \in Served : \A j \in Served :
       i < j => log[i].req.id < log[j].req.id
  /\ \A k \in Served :
       /\ log[k].pre = ApplyServed(env.loaded, 1, k - 1)
       /\ log[k].post = ApplyServed(env.loaded, 1, k)
       /\ log[k].res = SeqReply(log[k].pre, log[k].req)
  /\ services = ApplyServed(env.loaded, 1, Len(log))
  /\ \A id \in 1..Len(ret) :
       Returned(id) => /\ ServedAt(id) # 0
                       /\ ret[id][1] = log[ServedAt(id)].res
  /\ \A a \in 1..Len(ret) : \A b \in 1..Len(ret) :
       (IssuedAfterReturn(b, a) /\ ServedAt(b) # 0) => ServedAt(a) < ServedAt(b)

\* Two calls overlapped (both callers were waiting at once), a third call
\* came after one of them returned, and all three have returned.
C14_Witness ==
  /\ Len(ret) = 3
  /\ \A id \in 1..3 : Returned(id)
  /\ ret[1][2] >= 2
  /\ log[1].req.from # log[2].req.from
  /\ log[1].res.ok /\ ~log[2].res.ok

\* C15: once the actor task has ended, a call through the handle returns an
\* error to its caller: no caller panics.
C15_UnavailableIsAnError ==
  \A c \in Callers : pc[c] # "panicked"

\* The ids of the requests in the mpsc channel, oldest first.
QueuedIds == [i \in 1..Len(queue) |-> queue[i].id]

\* One iteration of StateActor::run.
run == run_Write \/ run_GetStatuses \/ run_GetStatusAt \/ run_GetSpec

\* C16: when the reply of a request cannot be sent because its caller gave
\* up, the actor goes on: it is still running and can take the next message
\* whenever one is queued, every request issued is either served or still
\* queued in order of issue, the dropped reply reaches no other call, and
\* the mutation of the abandoned request is in the map every later request
\* is served on.
C16_AbandonedReplyDropped ==
  /\ alive
  /\ queue # <<>> => ENABLED run
  /\ \A id \in 1..nreq :
       (ServedAt(id) # 0) # (\E i \in 1..Len(queue) : QueuedIds[i] = id)
  /\ \A i \in 1..Len(queue) : \A j \in 1..Len(queue) :
       i < j => QueuedIds[i] < QueuedIds[j]
  /\ \A c \in Callers :
       reply[c] # <<>> => /\ pc[c] = "waiting"
                          /\ ServedAt(cur[c].id) # 0
                          /\ log[ServedAt(cur[c].id)].sent
                          /\ reply[c][1] = log[ServedAt(cur[c].id)].res
  /\ \A k \in Served :
       ~log[k].sent =>
         /\ ~Returned(log[k].req.id)
         /\ log[k].post = IF log[k].req.kind = "Write"
                           THEN handle_write(log[k].pre, cap, log[k].req.name,
                                             log[k].req.action).services
                           ELSE log[k].pre
         /\ services = ApplyServed(log[k].post, k + 1, Len(log))
         /\ k < Len(log) => log[k + 1].pre = log[k].post

\* A create was served after its caller had given up, and a later get_spec
\* returned the spec it created.
C16_Witness ==
  \E k \in Served : \E j \in Served :
    /\ k < j
    /\ IsWrite(log[k], "CreateService") /\ log[k].res.ok /\ ~log[k].sent
    /\ log[j].req.kind = "GetSpec"
    /\ Returned(log[j].req.id)
    /\ ret[log[j].req.id][1] = Ok(<<log[k].req.action.spec>>)

\* The ids of the writes published before receiver s subscribed: those the
\* channel held at that time, and those it dropped for want of a receiver.
PublishedBefore(s) ==
  {bus[q].id : q \in 1..start[s]}
    \cup {pub[i].id : i \in {j \in 1..Len(pub) :
                                \A q \in 1..Len(bus) : bus[q].id # pub[j].id}}

\* C17: a receiver gets nothing before it subscribes, and what it gets after
\* is a value sent to the channel after its subscription, never one
\* published before.
C17_OnlyFutureNotifications ==
  \A s \in Subscribers :
    /\ s \notin subs => seen[s] = <<>>
    /\ \A i \in 1..Len(seen[s]) :
         /\ \E p \in (start[s] + 1)..Len(bus) : bus[p] = seen[s][i]
         /\ seen[s][i].id \notin PublishedBefore(s)

\* A receiver subscribed after a write was published to an earlier receiver
\* and after one was published to nobody, and has received a later one.
C17_Witness ==
  \E s \in Subscribers :
    /\ start[s] >= 1
    /\ Len(pub) > Len(bus)
    /\ Len(seen[s]) >= 1

\* The positions of the broadcast channel whose value receiver s was handed.
SeenPos(s) == {p \in 1..Len(bus) : \E k \in 1..Len(seen[s]) : seen[s][k] = bus[p]}

\* C18: the send to the broadcast channel never holds a write back and never
\* changes its result: a write whose reply has arrived can return whatever
\* the receivers have consumed, it returns the result the actor computed,
\* also when the channel had no receiver, and the actor can take the next
\* message; a receiver more than 32 values behind loses the oldest of them,
\* each followed by at least 32 newer ones, and nothing else.
C18_PublishNeverBlocks ==
  /\ \A c \in env.callers :
       (pc[c] = "waiting" /\ cur[c].kind = "Write" /\ reply[c] # <<>>)
         => ENABLED write_return(c)
  /\ queue # <<>> => ENABLED run_Write
  /\ \A id \in 1..Len(ret) :
       Returned(id) => /\ ServedAt(id) # 0
                       /\ ret[id][1] = log[ServedAt(id)].res
  /\ \A s \in subs :
       /\ \A p \in missed[s] : p > start[s] /\ p + BusCap <= Len(bus)
       /\ missed[s] \cap SeenPos(s) = {}
       /\ missed[s] \cup SeenPos(s) = (start[s] + 1)..next[s]
       /\ Len(bus) - next[s] > BusCap => ENABLED recv(s)

\* One write was published to no receiver and returned, the receiver that
\* subscribed then fell more than 32 values behind and lost the oldest one,
\* and every write of the run has returned Ok.
C18_Witness ==
  /\ Len(pub) > Len(bus)
  /\ \E s \in subs : missed[s] # {}
  /\ nreq = BusCap + 2
  /\ \A id \in 1..nreq : Returned(id) /\ ret[id][1].ok

\* C19: the sequence a get_statuses call returned is the history of the
\* service as it was when the actor served the call, whatever AddStatus or
\* DeleteService the actor applied since; and serving the call, like holding
\* its result, leaves the map as it was: the map is what the writes made it.
C19_HistoryIsSnapshot ==
  /\ \A j \in Served :
       (log[j].req.kind = "GetStatuses" /\ Returned(log[j].req.id))
         => /\ ret[log[j].req.id][1]
                 = handle_get_statuses(log[j].pre, log[j].req.name)
            /\ log[j].res.ok
                 => ret[log[j].req.id][1].val
                      = <<log[j].pre[log[j].req.name].statuses>>
  /\ \A j \in Served : log[j].req.kind = "GetStatuses" => log[j].post = log[j].pre
  /\ services = ApplyServed(env.loaded, 1, Len(log))

\* A get_statuses call returned a history, and the actor has since applied
\* an AddStatus for the same service: the map holds one status more than the
\* sequence returned.
C19_Witness ==
  \E j \in Served : \E k \in Served :
    /\ j < k
    /\ log[j].req.kind = "GetStatuses" /\ log[j].res.ok
    /\ Returned(log[j].req.id)
    /\ IsWrite(log[k], "AddStatus") /\ log[k].res.ok
    /\ log[k].req.name = log[j].req.name
    /\ log[j].req.name \in DOMAIN services
    /\ <<services[log[j].req.name].statuses>> # ret[log[j].req.id][1].val

\* Two VecBuffers cannot be told apart through len and get.
VecObsEq(a, b) ==
  /\ VecBuffer_len(a) = VecBuffer_len(b)
  /\ \A i \in 0..VecBuffer_len(a) : VecBuffer_get(a, i) = VecBuffer_get(b, i)

\* Two BTreeMapBuffers cannot be told apart through len and get.
MapObsEq(a, b) ==
  /\ BTreeMapBuffer_len(a) = BTreeMapBuffer_len(b)
  /\ \A i \in 0..BTreeMapBuffer_len(a) :
       BTreeMapBuffer_get(a, i) = BTreeMapBuffer_get(b, i)

\* The last position of vec whose entry has time t.
LastAt(vec, t) == Max({i \in 1..Len(vec) : vec[i][1] = t})

\* C20: for every VecBuffer b, from_vec(as_vec(b)) has the len of b and the
\* same get(i) for every i, so order and duplicate times are kept; for every
\* sequence v, the BTreeMapBuffer from_vec(v) is unchanged by as_vec then
\* from_vec, and it holds one entry for each time that occurs in v, with the
\* status of the last entry of v that has that time.
C20_BufferRoundTrips ==
  /\ VecObsEq(VecBuffer_from_vec(VecBuffer_as_vec(vecbuf)), vecbuf)
  /\ \A i \in 1..Len(vecbuf) :
       VecBuffer_get(VecBuffer_from_vec(VecBuffer_as_vec(vecbuf)), i - 1)
         = Some(vecbuf[i])
  /\ LET v == xfer
         m == BTreeMapBuffer_from_vec(v)
         again == BTreeMapBuffer_from_vec(BTreeMapBuffer_as_vec(m))
     IN /\ again = m
        /\ MapObsEq(again, m)
        /\ DOMAIN m = {v[i][1] : i \in 1..Len(v)}
        /\ BTreeMapBuffer_len(m) = Cardinality({v[i][1] : i \in 1..Len(v)})
        /\ \A t \in DOMAIN m : m[t] = v[LastAt(v, t)][2]

\* A VecBuffer of three entries, not in time order, two of them at the same
\* time with different statuses, was taken out with as_vec, and the
\* BTreeMapBuffer built from it has two entries.
C20_Witness ==
  /\ Len(vecbuf) = 3
  /\ \E i \in 1..2 : vecbuf[i][1] > vecbuf[i + 1][1]
  /\ \E i \in 1..3 : \E j \in 1..3 :
       i < j /\ vecbuf[i][1] = vecbuf[j][1] /\ vecbuf[i][2] # vecbuf[j][2]
  /\ xfer = VecBuffer_as_vec(vecbuf)
  /\ mapbuf = BTreeMapBuffer_from_vec(xfer)
  /\ BTreeMapBuffer_len(mapbuf) = 2

\* The status the HTTP handler of a returned request answers with.
HttpStatus(id) ==
  LET req == log[ServedAt(id)].req
  IN CASE req.kind = "Write" -> put_action(ret[id][1])
       [] req.kind = "GetStatuses" -> get_statuses_handler(ret[id][1])
       [] req.kind = "GetStatusAt" -> get_status_at_handler(ret[id][1])
       [] OTHER -> 0

\* C21: the write endpoint answers 201 to a create that succeeded, 409 to a
\* NameConflict and 404 to a NotFound; the read endpoints answer 200 to a
\* success and 404 to a NotFound.
C21_HttpStatusCodes ==
  \A id \in 1..Len(ret) :
    Returned(id) =>
      LET e == log[ServedAt(id)]
          r == ret[id][1]
      IN /\ (IsWrite(e, "CreateService") /\ r.ok) => HttpStatus(id) = 201
         /\ (e.req.kind = "Write" /\ r.err = "NameConflict")
              => HttpStatus(id) = 409
         /\ (e.req.kind = "Write" /\ r.err = "NotFound") => HttpStatus(id) = 404
         /\ (e.req.kind \in {"GetStatuses", "GetStatusAt"} /\ r.ok)
              => HttpStatus(id) = 200
         /\ (e.req.kind \in {"GetStatuses", "GetStatusAt"} /\ ~r.ok)
              => HttpStatus(id) = 404

\* The statuses of the AddStatus requests on n accepted among log[i..j], in
\* the order the actor applied them.
RECURSIVE PushOrder(_, _, _)
PushOrder(n, i, j) ==
  IF i > j THEN <<>>
  ELSE (IF /\ log[i].req.name = n
           /\ IsWrite(log[i], "AddStatus")
           /\ log[i].res.ok
        THEN <<log[i].req.action.status>>
        ELSE <<>>) \o PushOrder(n, i + 1, j)

\* The statuses pushed to the service the get_statuses log[j] reads, since
\* that service was created, in push order.
PushedBefore(j) ==
  LET n == log[j].req.name
      S == CreatedOrDeleted(n, j - 1)
  IN PushOrder(n, (IF S = {} THEN 0 ELSE Max(S)) + 1, j - 1)

Reverse(q) == [k \in 1..Len(q) |-> q[Len(q) + 1 - k]]

\* C22 as stated: get_statuses returns the entries in push order, an entry
\* pushed earlier before one pushed later.
C22_InsertionOrder ==
  \A j \in Served :
    (log[j].req.kind = "GetStatuses" /\ log[j].res.ok)
      => log[j].res.val = <<PushedBefore(j)>>

\* C22: get_statuses returns every entry pushed since the service was
\* created, duplicates of a timestamp included, in reverse push order: an
\* entry pushed later comes before one pushed earlier, whatever their
\* timestamps.
C22_ReverseInsertionOrder ==
  \A j \in Served :
    (log[j].req.kind = "GetStatuses" /\ log[j].res.ok)
      => /\ log[j].res.val = <<Reverse(PushedBefore(j))>>
         /\ Returned(log[j].req.id) => ret[log[j].req.id][1] = log[j].res

\* A get_statuses returned two different entries, of the same timestamp or
\* with the later timestamp pushed first.
C22_Witness ==
  /\ \E j \in Served :
       /\ log[j].req.kind = "GetStatuses" /\ Returned(log[j].req.id)
       /\ Len(PushedBefore(j)) = 2
       /\ PushedBefore(j)[1] # PushedBefore(j)[2]
       /\ \/ PushedBefore(j)[1].time = PushedBefore(j)[2].time
          \/ PushedBefore(j)[1].time > PushedBefore(j)[2].time

\* C23: a receiver gets the notifications in the order in which the actor
\* applied the writes: of two it received, the one received first was
\* applied first.
C23_PublishedInApplyOrder ==
  \A s \in Subscribers :
    \A i \in 1..Len(seen[s]) : \A j \in 1..Len(seen[s]) :
      i < j => ServedAt(seen[s][i].id) < ServedAt(seen[s][j].id)

\* The actor is a task of its own: the runtime polls it whenever a message is
\* in the channel, so an iteration of run that stays possible is taken.
SpecLive == InitLive /\ [][Next]_vars /\ WF_vars(run)

\* The request with this id is in the mpsc channel.
Queued(id) == \E i \in 1..Len(queue) : queue[i].id = id

\* How many times the actor has served the request with this id.
TimesServed(id) == Cardinality({k \in Served : log[k].req.id = id})

\* The actor takes the messages in the order they were sent, it answers no
\* request twice and none that is still queued, every reply a caller holds
\* is the answer to the request of its pending call, and the actor can take
\* the next message whenever there is one.
OneReplyInOrder ==
  /\ \A i \in Served : \A j \in Served : i < j => log[i].req.id < log[j].req.id
  /\ \A i \in 1..Len(queue) : \A j \in 1..Len(queue) :
       i < j => queue[i].id < queue[j].id
  /\ \A k \in Served : \A i \in 1..Len(queue) : log[k].req.id < queue[i].id
  /\ \A id \in 1..nreq : /\ TimesServed(id) <= 1
                          /\ Queued(id) # (TimesServed(id) = 1)
  /\ \A c \in Callers :
       reply[c] # <<>> => /\ pc[c] = "waiting"
                          /\ TimesServed(cur[c].id) = 1
                          /\ reply[c][1] = log[ServedAt(cur[c].id)].res
  /\ \A k \in Served :
       (log[k].sent /\ Returned(log[k].req.id))
         => ret[log[k].req.id][1] = log[k].res
  /\ queue # <<>> => ENABLED run

\* C24: while the actor runs, the requests are taken off the queue in the
\* order they were sent, each is answered exactly once, on the reply channel
\* of its own call, and every request sent is eventually answered: the actor
\* waits for nothing but the next message.
C24_EveryRequestAnsweredOnce ==
  /\ []OneReplyInOrder
  /\ \A id \in 1..MaxLiveReq : Queued(id) ~> (TimesServed(id) = 1)

\* Two callers had a request each in the queue at once; the actor answered
\* both, in the order they were sent, and both calls returned.
C24_Witness ==
  /\ Len(log) = 2
  /\ log[1].req.from # log[2].req.from
  /\ log[1].sent /\ log[2].sent
  /\ Returned(1) /\ Returned(2)
  /\ ret[1][2] = 2

\* The record of name m in the map svcs, or none.
Record(svcs, m) == IF m \in DOMAIN svcs THEN Some(svcs[m]) ELSE None

\* C25: a request for name n leaves the record of every other name as it
\* was (present or not, its spec, its history), a read request leaves the
\* whole map as it was, and the map changes in no other way: each request is
\* served on the map the one before it left.
C25_OtherNamesUntouched ==
  /\ \A k \in Served :
       /\ \A m \in (DOMAIN log[k].pre \cup DOMAIN log[k].post \cup env.names)
                    \ {log[k].req.name} :
            Record(log[k].post, m) = Record(log[k].pre, m)
       /\ IsRead(log[k]) => log[k].post = log[k].pre
       /\ k > 1 => log[k].pre = log[k - 1].post
  /\ Len(log) > 0 => services = log[Len(log)].post

\* A write for one name was accepted and changed the map while another name
\* had a record, and a read request was served on a map with a record.
C25_Witness ==
  /\ \E k \in Served : \E m \in DOMAIN log[k].pre :
       /\ m # log[k].req.name
       /\ log[k].req.kind = "Write" /\ log[k].res.ok
       /\ log[k].post # log[k].pre
  /\ \E j \in Served : IsRead(log[j]) /\ DOMAIN log[j].pre # {}
====
